---- MODULE Spec2Model ----
(***************************************************************************)
(* openbao-pki-controller: the in-memory intermediate CA                   *)
(* (src/src/intermediate_ca.rs, src/src/ca_certificate.rs), the leaf       *)
(* signer (src/src/utils.rs) and the reconciler with its controller        *)
(* driver (src/src/main.rs).                                               *)
(*                                                                         *)
(* Every `.await` of the source is a point where another reconciliation    *)
(* may run; the code between two awaits is one atomic action.  No lock     *)
(* guard of the RwLock is held across an await (the guard of line 87, 92   *)
(* and 77 is a temporary dropped at the end of its statement, the guard    *)
(* of line 107 lives until the synchronous return), so the lock is free    *)
(* at every await and is not a variable of the model.                      *)
(***************************************************************************)
EXTENDS Integers, Sequences, FiniteSets, TLC

\* ------------------------------------------------------------ bounds
MaxTicks == 1
MaxBackendCalls == 2

\* ------------------------------------------------------------ constants
\* Config::default().concurrency(2): at most two reconciliations at a time
Concurrency == 2
\* request_options.ttl("168h"), in seconds
CaTtlSeconds == 168 * 3600
\* Validity::from_now(Duration::from_secs(86400))
LeafValiditySeconds == 86400
\* Duration::from_secs(3600) subtracted in renew_at
RefreshLeadSeconds == 3600
\* Action::requeue(Duration::from_secs(300)) on success
RequeueOkSeconds == 300
\* Action::requeue(Duration::from_secs(5)) in error_policy
RequeueErrSeconds == 5
\* the clock advances in steps of a CA lifetime and an hour
TickSeconds == 169 * 3600

Workers == 1..Concurrency
\* as many request objects as the driver reconciles at a time
Requests == 1..Concurrency

\* Option<T>
None == [some |-> FALSE]
Some(v) == [some |-> TRUE, v |-> v]

\* Result<T, Error>
Ok(v) == [ok |-> TRUE, v |-> v]
Err(e) == [ok |-> FALSE, err |-> e]

\* gethostname(), taken to be valid UTF-8: the CSR's common name and the
\* CN of every intermediate
Hostname == "controller-host"

\* ------------------------------------------------------------ requests
\* The fields of a PodCertificateRequest the code reads.  spki_valid says
\* whether spec.pkix_public_key parses as SubjectPublicKeyInfo DER.
GoodRequest ==
    [name |-> Some("pcr"), namespace |-> Some("demo"), pod_name |-> "worker-1",
     spki_valid |-> TRUE, max_expiration_seconds |-> Some(7200)]

RequestProfiles ==
    << GoodRequest,
       [GoodRequest EXCEPT !.namespace = None],
       [GoodRequest EXCEPT !.max_expiration_seconds = None],
       [GoodRequest EXCEPT !.name = None],
       [GoodRequest EXCEPT !.spki_valid = FALSE] >>

\* PodCertificateRequestStatus::default()
EmptyStatus ==
    [certificate_chain |-> None, not_before |-> None, not_after |-> None,
     begin_refresh_at |-> None, conditions |-> None]

\* a condition another writer of the status has recorded
PriorCondition ==
    [type |-> "Pending", status |-> "True", reason |-> "AwaitingSigner",
     message |-> "Waiting for the signer", last_transition_time |-> 0]

\* The objects the watcher lists at start: each request profile with no
\* status yet, and a well-formed request whose status already has a
\* condition and no certificate chain.
InitialObjects ==
    [i \in DOMAIN RequestProfiles |->
        [spec |-> RequestProfiles[i], status |-> None]]
    \o << [spec |-> GoodRequest,
           status |-> Some([EmptyStatus EXCEPT
                               !.conditions = Some(<<PriorCondition>>)])] >>

\* ------------------------------------------------------------ codec
\* A PEM document: a label and the DER it wraps.  x509_cert's from_pem
\* accepts it only under the CERTIFICATE label.
EncodePem(c) == [label |-> "CERTIFICATE", der |-> c]

DecodePem(p) == IF p.label = "CERTIFICATE" THEN Ok(p.der) ELSE Err("Der")

\* params.serialize_request(&ca_key_pair): CN = host name, the pair's
\* public key
SerializeRequest(key) == [common_name |-> Hostname, public_key |-> key]

\* The backend's sign-intermediate operation on a CSR at time t with
\* ttl 168h; n numbers the certificates the backend has issued.
SignIntermediate(csr, t, n) ==
    [certificate |->
        EncodePem([subject |-> csr.common_name, public_key |-> csr.public_key,
                   not_after |-> t + CaTtlSeconds, serial |-> n])]

\* the certificate is stored next to a key pair other than the CSR's
CACertificateFromOtherKey(key, response) ==
    [certificate_pem |-> response.certificate, key_pair |-> key + 1]

\* impl From<(KeyPair, SignIntermediateResponse)> for CACertificate
CACertificateFrom(key, response) ==
    [certificate_pem |-> response.certificate, key_pair |-> key]

\* a certificate text that does not parse counts as not expired
IsExpiredFailOpen(c, t) ==
    LET parsed == DecodePem(c.certificate_pem)
    IN  IF ~parsed.ok THEN FALSE ELSE parsed.v.not_after < t

\* CACertificate::is_expired
IsExpired(c, t) ==
    LET parsed == DecodePem(c.certificate_pem)
    IN  IF ~parsed.ok THEN TRUE ELSE parsed.v.not_after < t

\* format!("system:pod:{}:{}", namespace.unwrap_or("default"), pod_name)
CommonName(request) ==
    <<"system:pod",
      IF request.namespace.some THEN request.namespace.v ELSE "default",
      request.pod_name>>

\* the leaf signer refuses an empty common name
SignLeafRejectsEmptyCn(spki_valid, ca_cert_pem, ca_keypair, cn, t) ==
    LET ca_cert == DecodePem(ca_cert_pem)
    IN  IF ~spki_valid \/ ~ca_cert.ok THEN Err("Der")
        ELSE IF cn = <<>> THEN Err("Signing")
        ELSE Ok([subject |-> cn,
                 issuer |-> ca_cert.v.subject,
                 issuer_serial |-> ca_cert.v.serial,
                 issuer_key |-> ca_cert.v.public_key,
                 not_before |-> t,
                 not_after |-> t + LeafValiditySeconds,
                 signed_by |-> ca_keypair])

\* utils::sign_certificate at time t; an empty cn is <<>>
SignLeaf(spki_valid, ca_cert_pem, ca_keypair, cn, t) ==
    LET ca_cert == DecodePem(ca_cert_pem)
    IN  IF ~spki_valid THEN Err("Der")
        ELSE IF ~ca_cert.ok THEN Err("Der")
        ELSE Ok([subject |-> IF cn = <<>> THEN <<"pod-certificate">> ELSE cn,
                 issuer |-> ca_cert.v.subject,
                 issuer_serial |-> ca_cert.v.serial,
                 issuer_key |-> ca_cert.v.public_key,
                 not_before |-> t,
                 not_after |-> t + LeafValiditySeconds,
                 signed_by |-> ca_keypair])

\* error_policy: every error is requeued after 5 s
ErrorPolicy(error) == [requeue |-> RequeueErrSeconds]

\* what the driver schedules for a result of reconcile: the action of an
\* Ok, error_policy's action for an Err
DriverAction(res) == IF res.ok THEN res.v ELSE ErrorPolicy(res.err)

\* main.rs:51-52: status is Some and its certificate_chain is Some
AlreadyIssuedDropped(object) == FALSE

AlreadyIssued(object) ==
    object.status.some /\ object.status.v.certificate_chain.some

\* the condition record of main.rs:100-107
IssuedCondition(t) ==
    [type |-> "Issued", status |-> "True",
     reason |-> "CertificateIssuedSuccessfully",
     message |-> "Certificate issued successfully",
     last_transition_time |-> t]

\* main.rs:78-80: renew_at.  unwrap() panics on an absent value; a negative
\* i32 cast `as u64` is at least 2^64 - 2^31 seconds, beyond what chrono's
\* TimeDelta holds, and `Utc::now() + Duration` panics on it.
RenewAt(t, max_expiration_seconds) ==
    IF ~max_expiration_seconds.some THEN Err("panic")
    ELSE IF max_expiration_seconds.v < 0 THEN Err("panic")
    ELSE Ok(t + max_expiration_seconds.v - RefreshLeadSeconds)

\* an absent namespace is replaced by "default", as in the common name
PatchTargetDefault(object) ==
    Ok(IF object.spec.namespace.some THEN object.spec.namespace.v
       ELSE "default")

\* main.rs:109-115: the namespace the patch is sent to
PatchTarget(object) ==
    IF object.spec.namespace.some THEN Ok(object.spec.namespace.v)
    ELSE Err("MissingObjectKey")

\* the status carries the certificate chain and nothing else
BuildStatusChainOnly(object, leaf, t) ==
    [(IF object.status.some THEN object.status.v ELSE EmptyStatus) EXCEPT
        !.certificate_chain = Some(EncodePem(leaf))]

\* the status reconcile builds from the object it was given (main.rs:75-107)
BuildStatus(object, leaf, t) ==
    [(IF object.status.some THEN object.status.v ELSE EmptyStatus) EXCEPT
        !.certificate_chain = Some(EncodePem(leaf)),
        !.not_before = Some(leaf.not_before),
        !.not_after = Some(leaf.not_after),
        !.begin_refresh_at =
            Some(RenewAt(t, object.spec.max_expiration_seconds).v),
        !.conditions = Some(<<IssuedCondition(t)>>)]

VARIABLES
    now,            \* SystemTime::now() / Utc::now()
    ca,             \* IntermediateCA.ca : Option<CACertificate>
    backend_calls,  \* sign_intermediate calls started so far
    requests,       \* request -> its metadata and spec (never written)
    server,         \* request -> Option<status> stored by the API server
    cache,          \* request -> status in the controller's watch cache
    pc,             \* worker -> the await it is suspended at
    pcr,            \* worker -> the object its reconcile was called with
    ca_key_pair,    \* worker -> issue_ca_certificate's local key pair
    intermediate,   \* worker -> issue_ca_certificate's backend response
    checked,        \* worker -> the CA value its expiry check looked at
    cert,           \* worker -> the leaf its sign_certificate returned
    patch,          \* worker -> the status patch in flight
    result          \* worker -> what reconcile returned

vars == <<now, ca, backend_calls, requests, server, cache, pc, pcr,
          ca_key_pair, intermediate, checked, cert, patch, result>>

NoPcr == [id |-> 0]

Init ==
    /\ now = 0
    /\ ca = None
    /\ backend_calls = 0
    \* requests are interchangeable: one numbering of each multiset
    /\ \E f \in [Requests -> DOMAIN InitialObjects] :
          /\ \A r \in Requests : r + 1 \in Requests => f[r] <= f[r + 1]
          /\ requests = [r \in Requests |-> InitialObjects[f[r]].spec]
          /\ server = [r \in Requests |-> InitialObjects[f[r]].status]
    /\ cache = server
    /\ pc = [w \in Workers |-> "idle"]
    /\ pcr = [w \in Workers |-> NoPcr]
    /\ ca_key_pair = [w \in Workers |-> 0]
    /\ intermediate = [w \in Workers |-> None]
    /\ checked = [w \in Workers |-> None]
    /\ cert = [w \in Workers |-> None]
    /\ patch = [w \in Workers |-> None]
    /\ result = [w \in Workers |-> None]

\* ------------------------------------------------------------ actions
PanicStates ==
    {"panic_todo", "panic_max_expiration_seconds", "panic_name", "panic_ca"}

\* A panic unwinds through the controller stream that main awaits: the
\* process is gone and nothing runs any more.
Running == \A w \in Workers : pc[w] \notin PanicStates

\* reconcile returns: its locals are dropped
Return(w, res) ==
    /\ pc' = [pc EXCEPT ![w] = "returned"]
    /\ result' = [result EXCEPT ![w] = Some(res)]
    /\ ca_key_pair' = [ca_key_pair EXCEPT ![w] = 0]
    /\ intermediate' = [intermediate EXCEPT ![w] = None]
    /\ patch' = [patch EXCEPT ![w] = None]

Panic(w, where) ==
    /\ pc' = [pc EXCEPT ![w] = where]
    /\ UNCHANGED <<result, ca_key_pair, intermediate, patch>>

\* the request is validated before anything is signed: without a
\* namespace reconcile returns MissingObjectKey at once
ReconcileValidatesFirst(w, r) ==
    /\ Running
    /\ pc[w] = "idle"
    /\ \A v \in Workers : v < w => pc[v] # "idle"
    /\ \A v \in Workers : pcr[v].id # r
    /\ pcr' = [pcr EXCEPT ![w] =
                  [id |-> r, spec |-> requests[r], status |-> cache[r]]]
    /\ IF AlreadyIssued([id |-> r, spec |-> requests[r], status |-> cache[r]])
       THEN Return(w, Ok([requeue |-> RequeueOkSeconds]))
       ELSE IF ~requests[r].namespace.some
       THEN Return(w, Err("MissingObjectKey"))
       ELSE /\ pc' = [pc EXCEPT ![w] = "read_none"]
            /\ UNCHANGED <<result, ca_key_pair, intermediate, patch>>
    /\ UNCHANGED <<now, ca, backend_calls, requests, server, cache,
                   checked, cert>>

\* The driver calls reconcile for request r with the object of its watch
\* cache; it never runs two reconciliations of one object at a time.
\* main.rs:44-63, up to the first await of sign_certificate.
Reconcile(w, r) ==
    /\ Running
    /\ pc[w] = "idle"
    \* idle workers are interchangeable: the first one takes it
    /\ \A v \in Workers : v < w => pc[v] # "idle"
    /\ \A v \in Workers : pcr[v].id # r
    /\ pcr' = [pcr EXCEPT ![w] =
                  [id |-> r, spec |-> requests[r], status |-> cache[r]]]
    /\ IF AlreadyIssued([id |-> r, spec |-> requests[r], status |-> cache[r]])
       THEN Return(w, Ok([requeue |-> RequeueOkSeconds]))
       ELSE /\ pc' = [pc EXCEPT ![w] = "read_none"]
            /\ UNCHANGED <<result, ca_key_pair, intermediate, patch>>
    /\ UNCHANGED <<now, ca, backend_calls, requests, server, cache,
                   checked, cert>>

\* intermediate_ca.rs:87-90 and issue_ca_certificate 27-65: the is_none
\* check, the key pair, the CSR, and the start of the backend call.
SignCertificateReadNone(w) ==
    /\ Running
    /\ pc[w] = "read_none"
    /\ IF ~ca.some
       THEN \/ \* KeyPair::generate, CertificateParams::new,
               \* serialize_request or csr.pem fails
               /\ Return(w, Err("CSRCreate"))
               /\ UNCHANGED backend_calls
            \/ /\ backend_calls < MaxBackendCalls
               /\ backend_calls' = backend_calls + 1
               /\ ca_key_pair' = [ca_key_pair EXCEPT ![w] = backend_calls + 1]
               /\ pc' = [pc EXCEPT ![w] = "sign_intermediate"]
               /\ UNCHANGED <<result, intermediate, patch>>
       ELSE /\ pc' = [pc EXCEPT ![w] = "read_expired"]
            /\ UNCHANGED <<backend_calls, result, ca_key_pair, intermediate,
                           patch>>
    /\ UNCHANGED <<now, ca, requests, server, cache, pcr, checked,
                   cert>>

\* the error of the backend call is swallowed and the call goes on
SignIntermediateReplySwallowed(w) ==
    /\ Running
    /\ pc[w] = "sign_intermediate"
    /\ \/ /\ pc' = [pc EXCEPT ![w] = "read_expired"]
          /\ UNCHANGED <<intermediate, result, ca_key_pair, patch>>
       \/ /\ intermediate' = [intermediate EXCEPT ![w] =
                Some(SignIntermediate(SerializeRequest(ca_key_pair[w]), now,
                                      ca_key_pair[w]))]
          /\ pc' = [pc EXCEPT ![w] = "write"]
          /\ UNCHANGED <<result, ca_key_pair, patch>>
    /\ UNCHANGED <<now, ca, backend_calls, requests, server, cache,
                   pcr, checked, cert>>

\* intermediate_ca.rs:58-77: the backend answers the sign-intermediate call
SignIntermediateReply(w) ==
    /\ Running
    /\ pc[w] = "sign_intermediate"
    /\ \/ Return(w, Err("VaultRequestFailed"))
       \/ /\ intermediate' = [intermediate EXCEPT ![w] =
                Some(SignIntermediate(SerializeRequest(ca_key_pair[w]), now,
                                      ca_key_pair[w]))]
          /\ pc' = [pc EXCEPT ![w] = "write"]
          /\ UNCHANGED <<result, ca_key_pair, patch>>
    /\ UNCHANGED <<now, ca, backend_calls, requests, server, cache,
                   pcr, checked, cert>>

\* take() in place of replace(): a present state is emptied
ReplaceStateTake(w) ==
    /\ Running
    /\ pc[w] = "write"
    /\ ca' = IF ca.some THEN None
             ELSE Some(CACertificateFrom(ca_key_pair[w], intermediate[w].v))
    /\ pc' = [pc EXCEPT ![w] = "read_expired"]
    /\ ca_key_pair' = [ca_key_pair EXCEPT ![w] = 0]
    /\ intermediate' = [intermediate EXCEPT ![w] = None]
    /\ UNCHANGED <<now, backend_calls, requests, server, cache, pcr,
                   checked, cert, patch, result>>

\* intermediate_ca.rs:73-80: the write guard is taken, the state replaced
ReplaceState(w) ==
    /\ Running
    /\ pc[w] = "write"
    /\ ca' = Some(CACertificateFrom(ca_key_pair[w], intermediate[w].v))
    /\ pc' = [pc EXCEPT ![w] = "read_expired"]
    /\ ca_key_pair' = [ca_key_pair EXCEPT ![w] = 0]
    /\ intermediate' = [intermediate EXCEPT ![w] = None]
    /\ UNCHANGED <<now, backend_calls, requests, server, cache, pcr,
                   checked, cert, patch, result>>

\* the renewal is carried out: a caller that finds the CA expired starts
\* a backend call for a new one
SignCertificateReadExpiredRenews(w) ==
    /\ Running
    /\ pc[w] = "read_expired"
    /\ IF ca.some /\ IsExpired(ca.v, now)
       THEN /\ backend_calls < MaxBackendCalls
            /\ backend_calls' = backend_calls + 1
            /\ ca_key_pair' = [ca_key_pair EXCEPT ![w] = backend_calls + 1]
            /\ pc' = [pc EXCEPT ![w] = "sign_intermediate"]
            /\ UNCHANGED <<checked, result, intermediate, patch>>
       ELSE /\ pc' = [pc EXCEPT ![w] = "read_sign"]
            /\ checked' = [checked EXCEPT ![w] = ca]
            /\ UNCHANGED <<backend_calls, result, ca_key_pair, intermediate,
                           patch>>
    /\ UNCHANGED <<now, ca, requests, server, cache, pcr, cert>>

\* intermediate_ca.rs:92-102: the expiry check; renewal is todo!()
SignCertificateReadExpired(w) ==
    /\ Running
    /\ pc[w] = "read_expired"
    /\ IF ca.some /\ IsExpired(ca.v, now)
       THEN Panic(w, "panic_todo") /\ UNCHANGED checked
       ELSE /\ pc' = [pc EXCEPT ![w] = "read_sign"]
            /\ checked' = [checked EXCEPT ![w] = ca]
            /\ UNCHANGED <<result, ca_key_pair, intermediate, patch>>
    /\ UNCHANGED <<now, ca, backend_calls, requests, server, cache,
                   pcr, cert>>

\* a JSON merge patch of the status: the fields the patch carries replace
\* the stored ones (a list is replaced whole), the others are kept
MergePatch(stored, p) ==
    LET old == IF stored.some THEN stored.v ELSE EmptyStatus
    IN  Some([f \in DOMAIN EmptyStatus |-> IF p[f].some THEN p[f] ELSE old[f]])

\* intermediate_ca.rs:104-116 and main.rs:63-125: the guard is read, the
\* leaf signed, the status built and the patch request sent.
SignCertificateSignLeaf(w) ==
    /\ Running
    /\ pc[w] = "read_sign"
    /\ IF ~ca.some
       THEN Panic(w, "panic_ca") /\ UNCHANGED cert
       ELSE
         LET object == pcr[w]
             signed == SignLeaf(object.spec.spki_valid, ca.v.certificate_pem,
                                ca.v.key_pair, CommonName(object.spec), now)
         IN  IF ~signed.ok
             THEN Return(w, signed) /\ UNCHANGED cert
             ELSE
               /\ cert' = [cert EXCEPT ![w] = Some(signed.v)]
               /\ IF ~RenewAt(now, object.spec.max_expiration_seconds).ok
                  THEN Panic(w, "panic_max_expiration_seconds")
                  ELSE \/ \* cert.to_pem fails
                          Return(w, Err("Der"))
                       \/ IF ~PatchTarget(object).ok
                          THEN Return(w, PatchTarget(object))
                          ELSE IF ~object.spec.name.some
                          THEN Panic(w, "panic_name")
                          ELSE /\ patch' = [patch EXCEPT ![w] =
                                    Some(BuildStatus(object, signed.v, now))]
                               /\ pc' = [pc EXCEPT ![w] = "patch_status"]
                               /\ UNCHANGED <<result, ca_key_pair,
                                              intermediate>>
    /\ UNCHANGED <<now, ca, backend_calls, requests, server, cache, pcr,
                   checked>>

\* main.rs:120-135: the API server answers the status patch
PatchStatusReply(w) ==
    /\ Running
    /\ pc[w] = "patch_status"
    /\ \/ /\ Return(w, Err("ConfigMapCreationFailed"))
          /\ UNCHANGED server
       \/ /\ server' = [server EXCEPT ![pcr[w].id] =
                           MergePatch(server[pcr[w].id], patch[w].v)]
          /\ Return(w, Ok([requeue |-> RequeueOkSeconds]))
    /\ UNCHANGED <<now, ca, backend_calls, requests, cache, pcr,
                   checked, cert>>

\* main.rs:193-203: the driver takes reconcile's result, asks error_policy
\* about an error, schedules the requeue and frees the worker
Requeue(w) ==
    /\ Running
    /\ pc[w] = "returned"
    /\ pc' = [pc EXCEPT ![w] = "idle"]
    /\ pcr' = [pcr EXCEPT ![w] = NoPcr]
    /\ result' = [result EXCEPT ![w] = None]
    /\ checked' = [checked EXCEPT ![w] = None]
    /\ cert' = [cert EXCEPT ![w] = None]
    /\ UNCHANGED <<now, ca, backend_calls, requests, server, cache,
                   ca_key_pair, intermediate, patch>>

\* main.rs:193: the watcher delivers the stored object to the cache
WatchEvent(r) ==
    /\ Running
    /\ cache[r] # server[r]
    /\ cache' = [cache EXCEPT ![r] = server[r]]
    /\ UNCHANGED <<now, ca, backend_calls, requests, server, pc, pcr,
                   ca_key_pair, intermediate, checked, cert, patch, result>>

\* Time passes.  The lock is free at every await on it, so those awaits
\* complete at once: the clock moves on while the workers are idle or wait
\* for the backend or the API server.
Tick ==
    /\ Running
    /\ \A w \in Workers :
          pc[w] \in {"idle", "sign_intermediate", "patch_status", "returned"}
    /\ now < MaxTicks * TickSeconds
    /\ now' = now + TickSeconds
    /\ UNCHANGED <<ca, backend_calls, requests, server, cache, pc,
                   pcr, ca_key_pair, intermediate, checked, cert, patch,
                   result>>

Next ==
    \/ \E w \in Workers, r \in Requests : Reconcile(w, r)
    \/ \E w \in Workers : SignCertificateReadNone(w)
    \/ \E w \in Workers : SignIntermediateReply(w)
    \/ \E w \in Workers : ReplaceState(w)
    \/ \E w \in Workers : SignCertificateReadExpired(w)
    \/ \E w \in Workers : SignCertificateSignLeaf(w)
    \/ \E w \in Workers : PatchStatusReply(w)
    \/ \E w \in Workers : Requeue(w)
    \/ \E r \in Requests : WatchEvent(r)
    \/ Tick

Spec == Init /\ [][Next]_vars

\* ------------------------------------------------------------ single calls
\* The functions of the CA certificate, the leaf signer and the status
\* computation, each called once with an input drawn from a bounded set:
\* clock values an hour apart, CA certificate texts that parse or do not
\* and whose not_after lies before, at and after the clock, and requests
\* with and without a namespace, a parseable key and every kind of
\* max_expiration_seconds.
MaxCallHours == 2

CallTimes == {h * 3600 : h \in 0..MaxCallHours}

CallPems ==
    {[label |-> l,
      der |-> [subject |-> Hostname, public_key |-> 1, not_after |-> t,
               serial |-> 1]] : l \in {"CERTIFICATE", "GARBAGE"},
                                t \in CallTimes}

CallMaxExpirations ==
    {None} \cup {Some(v) : v \in {-1, 0, RefreshLeadSeconds - 1,
                                  RefreshLeadSeconds, 7200}}

CallRequests ==
    {[GoodRequest EXCEPT !.namespace = ns, !.spki_valid = k,
                         !.max_expiration_seconds = m] :
        ns \in {None, Some("demo")}, k \in BOOLEAN,
        m \in CallMaxExpirations}

CallInit ==
    /\ now \in CallTimes
    /\ \E p \in CallPems : ca = Some([certificate_pem |-> p, key_pair |-> 1])
    /\ \E q \in CallRequests : requests = [r \in Requests |-> q]
    /\ backend_calls = 0
    /\ server = [r \in Requests |-> None]
    /\ cache = server
    /\ pc = [w \in Workers |-> "idle"]
    /\ pcr = [w \in Workers |-> NoPcr]
    /\ ca_key_pair = [w \in Workers |-> 0]
    /\ intermediate = [w \in Workers |-> None]
    /\ checked = [w \in Workers |-> None]
    /\ cert = [w \in Workers |-> None]
    /\ patch = [w \in Workers |-> None]
    /\ result = [w \in Workers |-> None]

\* worker w makes one call and keeps what it returned
SingleCall(w, what, res) ==
    /\ pc[w] = "idle"
    /\ pc' = [pc EXCEPT ![w] = what]
    /\ result' = [result EXCEPT ![w] = Some(res)]
    /\ UNCHANGED <<now, ca, backend_calls, requests, server, cache, pcr,
                   ca_key_pair, intermediate, checked, cert, patch>>

\* ca_certificate.rs:22-30
CallIsExpired(w) == SingleCall(w, "is_expired", Ok(IsExpired(ca.v, now)))

\* intermediate_ca.rs:104-116: the leaf for request r from the present CA
CallSignCertificate(w, r) ==
    SingleCall(w, "sign_certificate",
                   SignLeaf(requests[r].spki_valid, ca.v.certificate_pem,
                        ca.v.key_pair, CommonName(requests[r]), now))

\* utils.rs:21-82 with an empty cn
CallSignEmptyCn(w, r) ==
    SingleCall(w, "sign_empty_cn",
                   SignLeaf(requests[r].spki_valid, ca.v.certificate_pem,
                        ca.v.key_pair, <<>>, now))

\* main.rs:78-80
CallRenewAt(w, r) ==
    SingleCall(w, "renew_at", RenewAt(now, requests[r].max_expiration_seconds))

CallNext ==
    \/ \E w \in Workers : CallIsExpired(w)
    \/ \E w \in Workers, r \in Requests : CallSignCertificate(w, r)
    \/ \E w \in Workers, r \in Requests : CallSignEmptyCn(w, r)
    \/ \E w \in Workers, r \in Requests : CallRenewAt(w, r)

CallSpec == CallInit /\ [][CallNext]_vars

\* ------------------------------------------------------------ properties
\* a status that carries a certificate chain
Fulfilled(status) == status.some /\ status.v.certificate_chain.some

\* the CA certificates the backend has issued that a caller or the state
\* still holds
Issuances ==
    {ca.v.certificate_pem.der.serial : x \in {y \in {0} : ca.some}}
    \cup {intermediate[w].v.certificate.der.serial :
            w \in {v \in Workers : intermediate[v].some}}

\* the CA certificates behind the leaves the callers hold and the stored
\* certificate chains
LeafIssuers ==
    {cert[w].v.issuer_serial : w \in {v \in Workers : cert[v].some}}
    \cup {server[r].v.certificate_chain.v.der.issuer_serial :
            r \in {q \in Requests : Fulfilled(server[q])}}

\* a caller between the start of its backend call and the end of its
\* replacement of the state
InFlight(w) == pc[w] \in {"sign_intermediate", "write"}

\* the step in which caller w reads the state and signs a leaf
SignsLeaf(w) == pc[w] = "read_sign" /\ pc'[w] # "read_sign"

\* C1: concurrent first-time callers cause one backend sign-intermediate
\* call in total (no two issued CA certificates exist), and all of them
\* sign their leaves with the same CA certificate.
C1_SingleIssuance ==
    /\ Cardinality(Issuances) <= 1
    /\ Cardinality(LeafIssuers) <= 1

\* C2: while one caller is between starting the backend call and finishing
\* the replacement of the state, no other caller is inside a backend call
\* and no caller reads the state to sign a leaf.
C2_WriterExcludes ==
    [][\A w, v \in Workers :
          (w # v /\ InFlight(w)) =>
              /\ pc[v] # "sign_intermediate"
              /\ ~SignsLeaf(v)]_vars

\* the step in which caller w finds the state present and expired
FindsExpired(w) ==
    /\ pc[w] = "read_expired" /\ pc'[w] # "read_expired"
    /\ ca.some /\ IsExpired(ca.v, now)

\* the step in which sign_certificate of caller w returns a leaf
ReturnsLeaf(w) == SignsLeaf(w) /\ cert'[w].some

\* C3: a sign_certificate call that finds the state present but expired
\* runs Renewal (a fresh key pair and a new backend sign-intermediate
\* call), and when the call returns a leaf the state holds a CA that is
\* not expired.
C3_ExpiredCaIsRenewed ==
    [][\A w \in Workers :
          /\ FindsExpired(w) =>
                /\ pc'[w] = "sign_intermediate"
                /\ backend_calls' = backend_calls + 1
                /\ ca_key_pair'[w] = backend_calls'
          /\ ReturnsLeaf(w) => ~IsExpired(ca'.v, now')]_vars

\* C4: every leaf sign_certificate returns was signed with the CA value
\* that passed the expiry check of that same call, and that CA is not
\* expired when it signs.
C4_LeafFromCheckedCa ==
    \A w \in Workers :
        cert[w].some =>
            /\ checked[w].some
            /\ ~IsExpired(checked[w].v, cert[w].v.not_before)
            /\ cert[w].v.issuer_serial = checked[w].v.certificate_pem.der.serial
            /\ cert[w].v.signed_by = checked[w].v.key_pair

\* C5: no reconcile invocation aborts the process: every invocation ends
\* by returning a success action or an error that error_policy maps to a
\* requeue.
C5_NoFatalError ==
    \A w \in Workers :
        /\ pc[w] \notin PanicStates
        /\ pc[w] = "returned" =>
              DriverAction(result[w].v).requeue
                  \in {RequeueOkSeconds, RequeueErrSeconds}

\* the step in which a status patch for request r is applied
Patched(r) == server'[r] # server[r]

\* C6: once the stored status of a request carries a certificate chain,
\* no reconciliation signs for that request or patches its status again.
C6_SignedAtMostOnce ==
    [][\A r \in Requests :
          Fulfilled(server[r]) =>
              /\ ~Patched(r)
              /\ \A w \in Workers : pcr[w].id = r => ~SignsLeaf(w)]_vars

\* the step in which reconcile is called for worker w
Called(w) == pc[w] = "idle" /\ pc'[w] # "idle"

\* C7: a reconcile called with an object whose status carries a
\* certificate chain starts no backend call, signs nothing, sends no patch,
\* leaves the CA state and the stored statuses unchanged and returns
\* success with a 300 s requeue.
C7_FulfilledIsNoOp ==
    [][\A w \in Workers :
          (Called(w) /\ Fulfilled(pcr'[w].status)) =>
              /\ pc'[w] = "returned"
              /\ result'[w] = Some(Ok([requeue |-> 300]))
              /\ UNCHANGED <<ca, backend_calls, server, ca_key_pair,
                             intermediate, cert, patch>>]_vars

\* a reconcile of an already fulfilled object has returned
C7_Witness ==
    \E w \in Workers :
        /\ pc[w] = "returned"
        /\ Fulfilled(pcr[w].status)
        /\ result[w] = Some(Ok([requeue |-> 300]))

\* the step in which the bootstrap of caller w fails: in the key pair or
\* the CSR, or in the backend call
BootstrapFails(w) ==
    /\ \/ pc[w] = "read_none" /\ ~ca.some
       \/ pc[w] = "sign_intermediate"
    /\ pc'[w] \notin {pc[w], "sign_intermediate", "write"}

C9_StateTransitions ==
    [][/\ ca.some => ca'.some
       /\ ca' # ca =>
            \E w \in Workers :
                /\ pc[w] = "write"
                /\ ca'.some
                /\ ca'.v.key_pair = ca_key_pair[w]
                /\ ca'.v.certificate_pem = intermediate[w].v.certificate
                /\ DecodePem(ca'.v.certificate_pem).ok]_vars

\* a present state is about to be replaced
C9_Witness == ca.some /\ \E w \in Workers : pc[w] = "write"

\* the leaves the callers hold and the stored ones
Leaves ==
    {cert[w].v : w \in {v \in Workers : cert[v].some}}
    \cup {server[r].v.certificate_chain.v.der :
            r \in {q \in Requests : Fulfilled(server[q])}}

\* C10: a present CA state holds the certificate the backend issued for
\* the key pair stored with it, and every leaf carries the issuer name of
\* the CA certificate whose key signed it.
C10_CertificateMatchesKey ==
    /\ ca.some =>
          /\ DecodePem(ca.v.certificate_pem).ok
          /\ ca.v.certificate_pem.der.public_key = ca.v.key_pair
          /\ ca.v.certificate_pem.der.subject = Hostname
    /\ \A leaf \in Leaves :
          /\ leaf.issuer_key = leaf.signed_by
          /\ leaf.issuer = Hostname

\* a leaf was signed while another caller was replacing the state
C10_Witness ==
    \E w, v \in Workers :
        /\ cert[w].some
        /\ pc[v] = "write"
        /\ ca.some
        /\ ca.v.key_pair # ca_key_pair[v]

\* the four status fields reconcile sets
IssuedFields == {"certificate_chain", "not_before", "not_after",
                 "begin_refresh_at"}

HasIssued(status) ==
    /\ status.conditions.some
    /\ \E i \in DOMAIN status.conditions.v :
          /\ status.conditions.v[i].type = "Issued"
          /\ status.conditions.v[i].status = "True"

\* none of the four fields, or all four and the Issued condition
Complete(status) ==
    \/ ~status.some
    \/ \A f \in IssuedFields : ~status.v[f].some
    \/ (\A f \in IssuedFields : status.v[f].some) /\ HasIssued(status.v)

\* reconcile of worker w returns an error from sign_certificate or from
\* the PEM encoding of the leaf
SigningFails(w) ==
    /\ pc[w] \in {"read_none", "sign_intermediate", "write", "read_expired",
                  "read_sign"}
    /\ pc'[w] = "returned"
    /\ result'[w].v \in {Err("CSRCreate"), Err("VaultRequestFailed"),
                         Err("Der")}

\* C11: the stored status of a request has none of certificate_chain,
\* not_before, not_after and begin_refresh_at, or all four together with
\* the Issued condition; a status changes only by the patch of a worker
\* that holds a signed leaf; and a reconciliation whose signing or PEM
\* encoding fails sends no patch and leaves every status as it was.
C11_CompletePatchAfterSigning ==
    /\ [](\A r \in Requests : Complete(server[r]))
    /\ [][\A r \in Requests :
             server'[r] # server[r] =>
                \E w \in Workers :
                   /\ pcr[w].id = r
                   /\ pc[w] = "patch_status"
                   /\ cert[w].some
                   /\ server'[r].v.certificate_chain
                         = Some(EncodePem(cert[w].v))]_vars
    /\ [][\A w \in Workers :
             SigningFails(w) => server' = server /\ patch'[w] = None]_vars

\* one request has been patched and the reconciliation of another, still
\* without a status, has failed after its leaf was signed
C11_Witness ==
    \E r \in Requests, w \in Workers :
        /\ Fulfilled(server[r])
        /\ pc[w] = "returned"
        /\ result[w] = Some(Err("Der"))
        /\ cert[w].some
        /\ ~server[pcr[w].id].some

\* reconcile of worker w has returned an error
Failed(w) == pc[w] = "returned" /\ ~result[w].v.ok

\* C12: whenever reconcile has returned an error, the driver schedules
\* the retry 5 s later (the requeue step can be taken, whatever number of
\* retries went before), and the request that failed has no certificate
\* chain and no Issued condition in its stored status.
C12_FailureIsRetried ==
    \A w \in Workers :
        Failed(w) =>
            /\ DriverAction(result[w].v) = [requeue |-> RequeueErrSeconds]
            /\ ENABLED Requeue(w)
            /\ ~Fulfilled(server[pcr[w].id])
            /\ server[pcr[w].id].some => ~HasIssued(server[pcr[w].id].v)

\* worker w reconciles an unfulfilled request without a namespace
NoNamespace(w) ==
    /\ pcr[w].id \in Requests
    /\ ~pcr[w].spec.namespace.some
    /\ ~Fulfilled(pcr[w].status)

\* C13 as stated: every reconciliation of an unfulfilled request without
\* a namespace returns MissingObjectKey and sends no status patch.
C13_AlwaysMissingObjectKey ==
    \A w \in Workers :
        NoNamespace(w) =>
            /\ pc[w] # "patch_status"
            /\ pc[w] = "returned" =>
                  result[w] = Some(Err("MissingObjectKey"))

\* C13: a reconciliation of an unfulfilled request without a namespace
\* never sends a status patch and never returns Ok: it returns CSRCreate
\* or VaultRequestFailed when the bootstrap failed (no leaf was signed),
\* Der when the leaf signer or the PEM encoding failed, and
\* MissingObjectKey only after the leaf was signed.
C13_MissingObjectKeyAfterSigning ==
    \A w \in Workers :
        NoNamespace(w) =>
            /\ pc[w] # "patch_status"
            /\ ~patch[w].some
            /\ pc[w] = "returned" =>
                  /\ result[w].v \in {Err("CSRCreate"),
                                      Err("VaultRequestFailed"),
                                      Err("Der"), Err("MissingObjectKey")}
                  /\ result[w].v = Err("MissingObjectKey") => cert[w].some
                  /\ cert[w].some =>
                        result[w].v \in {Err("Der"), Err("MissingObjectKey")}

\* such a reconciliation has returned MissingObjectKey
C13_Witness ==
    \E w \in Workers :
        /\ NoNamespace(w)
        /\ pc[w] = "returned"
        /\ result[w] = Some(Err("MissingObjectKey"))

\* C14: whenever the refresh time is computed for a request, the
\* computation yields a time, and for a present max_expiration_seconds m
\* (7200, 3600, below 3600, zero or negative) that time is the clock plus
\* m minus 3600 seconds.
C14_RefreshLead ==
    \A w \in Workers, r \in Requests :
        pc[w] = "renew_at" =>
            /\ result[w].v.ok
            /\ requests[r].max_expiration_seconds.some =>
                  result[w].v.v = now + requests[r].max_expiration_seconds.v
                                      - 3600

\* the condition list of a stored status, empty when there is none
Conditions(status) ==
    IF status.some /\ status.v.conditions.some THEN status.v.conditions.v
    ELSE <<>>

IsIssuedRecord(c) ==
    /\ c.type = "Issued"
    /\ c.status = "True"
    /\ c.reason = "CertificateIssuedSuccessfully"

\* C15: a status patch that is applied leaves the condition list the
\* request had before, followed by exactly one Issued / True /
\* CertificateIssuedSuccessfully record.
C15_AppendsOneCondition ==
    [][\A r \in Requests :
          Patched(r) =>
             /\ Len(Conditions(server'[r])) = Len(Conditions(server[r])) + 1
             /\ SubSeq(Conditions(server'[r]), 1, Len(Conditions(server[r])))
                   = Conditions(server[r])
             /\ IsIssuedRecord(Conditions(server'[r])
                                 [Len(Conditions(server'[r]))])]_vars

\* the CA certificate of the state parses and its not_after is not
\* before the clock
CaUsable ==
    /\ ca.some
    /\ ca.v.certificate_pem.label = "CERTIFICATE"
    /\ ca.v.certificate_pem.der.not_after >= now

\* leaf is issued by the CA of the state and valid for 24 hours from now
IssuedNow(leaf) ==
    /\ leaf.issuer = ca.v.certificate_pem.der.subject
    /\ leaf.not_before = now
    /\ leaf.not_after - leaf.not_before = 24 * 3600

\* C16: for a request with a parseable public key and a CA certificate
\* that is present and not expired, sign_certificate returns a leaf whose
\* issuer is the CA certificate's subject, whose validity is the 24 hours
\* from the signing instant and whose subject is
\* system:pod:<namespace>:<pod_name> of the request ("default" standing
\* for an absent namespace); called with an empty common name, the leaf
\* signer succeeds as well and the subject is pod-certificate.
C16_LeafOfRequest ==
    \A w \in Workers, r \in Requests :
        (CaUsable /\ requests[r].spki_valid) =>
            /\ pc[w] = "sign_certificate" =>
                  /\ result[w].v.ok
                  /\ IssuedNow(result[w].v.v)
                  /\ result[w].v.v.subject =
                        <<"system:pod",
                          IF requests[r].namespace.some
                          THEN requests[r].namespace.v ELSE "default",
                          requests[r].pod_name>>
            /\ pc[w] = "sign_empty_cn" =>
                  /\ result[w].v.ok
                  /\ IssuedNow(result[w].v.v)
                  /\ result[w].v.v.subject = <<"pod-certificate">>

\* a leaf for a request in namespace demo and a leaf for an empty common
\* name, both from a CA certificate that expires at this very instant
C16_Witness ==
    \E w, v \in Workers :
        /\ CaUsable
        /\ ca.v.certificate_pem.der.not_after = now
        /\ pc[w] = "sign_certificate"
        /\ result[w].v.ok
        /\ result[w].v.v.subject = <<"system:pod", "demo", "worker-1">>
        /\ pc[v] = "sign_empty_cn"
        /\ result[v].v.ok

\* C17: is_expired answers true for a certificate text that does not
\* parse and for a parseable one whose not_after is before the clock,
\* and false for a parseable one whose not_after is at or after the
\* clock.
C17_FailClosed ==
    \A w \in Workers :
        pc[w] = "is_expired" =>
            result[w].v.v =
                (\/ ca.v.certificate_pem.label # "CERTIFICATE"
                 \/ ca.v.certificate_pem.der.not_after < now)

\* is_expired has answered true for a text that does not parse although
\* the not_after inside it is still ahead
C17_Witness ==
    \E w \in Workers :
        /\ pc[w] = "is_expired"
        /\ ca.v.certificate_pem.label # "CERTIFICATE"
        /\ ca.v.certificate_pem.der.not_after > now
        /\ result[w].v.v = TRUE

\* worker w is inside sign_certificate, at one of its awaits
InSignCertificate(w) ==
    pc[w] \in {"read_none", "sign_intermediate", "write", "read_expired",
               "read_sign"}

\* the step that takes worker w past the await it is at
Resumes(w) ==
    \/ SignCertificateReadNone(w)
    \/ SignIntermediateReply(w)
    \/ ReplaceState(w)
    \/ SignCertificateReadExpired(w)
    \/ SignCertificateSignLeaf(w)

\* C18: every sign_certificate call goes on to its return: while the
\* process runs, a caller at an await of the lock or of the backend can
\* always take its next step, and no call ends inside sign_certificate
\* without returning.
C18_EveryCallReturns ==
    \A w \in Workers :
        /\ pc[w] \notin {"panic_todo", "panic_ca"}
        /\ (Running /\ InSignCertificate(w)) => ENABLED Resumes(w)

\* worker w starts a backend call
StartsBackendCall(w) ==
    /\ backend_calls' = backend_calls + 1
    /\ pc'[w] = "sign_intermediate"
    /\ pc[w] # "sign_intermediate"

\* C19: a present CA state stays present; every backend call is started
\* by a caller in the step in which its own read of the state found it
\* absent, so a call that begins once the state is present starts none.
C19_BackendCallOnlyWhenAbsent ==
    [][/\ ca.some => ca'.some
       /\ backend_calls' # backend_calls =>
             \E w \in Workers :
                 StartsBackendCall(w) /\ pc[w] = "read_none" /\ ~ca.some]_vars

\* a caller that began after the bootstrap stands before its expiry check
\* of a CA that has expired, and no second backend call has been started
C19_Witness ==
    \E w \in Workers :
        /\ pc[w] = "read_expired"
        /\ ca.some
        /\ ca.v.certificate_pem.der.not_after < now
        /\ backend_calls = 1

\* reconcile of worker w returns MissingObjectKey
ReturnsMissingObjectKey(w) ==
    /\ pc[w] # "returned"
    /\ pc'[w] = "returned"
    /\ result'[w] = Some(Err("MissingObjectKey"))

\* C20: a reconciliation of an unfulfilled request without a namespace
\* begins with the call of sign_certificate, and whenever a
\* reconciliation returns MissingObjectKey it does so in the step in which
\* sign_certificate has signed a leaf for it, with the common name
\* system:pod:default:<pod_name>, from a present CA; the leaf is new in
\* every cycle, so every retry signs again.
C20_SigningBeforeValidation ==
    [][\A w \in Workers :
          /\ (Called(w) /\ ~pcr'[w].spec.namespace.some
                        /\ ~Fulfilled(pcr'[w].status)) =>
                 pc'[w] = "read_none"
          /\ ReturnsMissingObjectKey(w) =>
                 /\ pc[w] = "read_sign"
                 /\ ca.some
                 /\ ~cert[w].some
                 /\ cert'[w].some
                 /\ cert'[w].v.subject
                       = <<"system:pod", "default", pcr[w].spec.pod_name>>
                 /\ cert'[w].v.not_before = now]_vars

\* a request without a namespace has failed with MissingObjectKey; the
\* leaf signed for it comes from the one CA the backend has issued
C20_Witness ==
    \E w \in Workers :
        /\ NoNamespace(w)
        /\ pc[w] = "returned"
        /\ result[w] = Some(Err("MissingObjectKey"))
        /\ cert[w].some
        /\ cert[w].v.subject = <<"system:pod", "default", "worker-1">>
        /\ backend_calls = 1
        /\ cert[w].v.issuer_serial = ca.v.certificate_pem.der.serial

\* ------------------------------------------------------------ fairness
\* the backend answers worker w's sign-intermediate call with a certificate
BackendSucceeds(w) == SignIntermediateReply(w) /\ pc'[w] = "write"

\* the API server applies worker w's status patch
PatchSucceeds(w) == PatchStatusReply(w) /\ result'[w].v.ok

\* key pair and CSR are built and the backend call is started
CsrBuilt(w) == SignCertificateReadNone(w) /\ pc'[w] # "returned"

\* the leaf is signed and encoded and the status patch is sent
PatchSent(w) == SignCertificateSignLeaf(w) /\ pc'[w] = "patch_status"

\* The tokio runtime polls every task that can run, the watcher delivers
\* every change, and the driver calls reconcile again for every object
\* after its requeue time, as soon as one of its two slots is free.  The
\* calls that can fail do not fail for ever.
Fairness ==
    /\ \A w \in Workers : WF_vars(Resumes(w))
    /\ \A w \in Workers : WF_vars(PatchStatusReply(w))
    /\ \A w \in Workers : WF_vars(Requeue(w))
    /\ \A r \in Requests : WF_vars(WatchEvent(r))
    /\ \A r \in Requests : SF_vars(\E w \in Workers : Reconcile(w, r))
    /\ SF_vars(\E w \in Workers : CsrBuilt(w))
    /\ SF_vars(\E w \in Workers : BackendSucceeds(w))
    /\ SF_vars(\E w \in Workers : PatchSent(w))
    /\ SF_vars(\E w \in Workers : PatchSucceeds(w))

FairSpec == Spec /\ Fairness

\* request r has a parseable public key, a namespace and a
\* max_expiration_seconds value
WellFormed(r) ==
    /\ requests[r].spki_valid
    /\ requests[r].namespace.some
    /\ requests[r].max_expiration_seconds.some

\* the CA of the state, if any, has not expired, and the backend can
\* still be asked for one
CaAvailable ==
    /\ ca.some => ca.v.certificate_pem.der.not_after >= now
    /\ ~ca.some =>
          \/ backend_calls < MaxBackendCalls
          \/ \E w \in Workers : pc[w] \in {"sign_intermediate", "write"}

\* C21: under fair scheduling, when the CA never expires and the backend
\* call and the status patch do not fail for ever, every request with a
\* parseable public key, a namespace and a max_expiration_seconds value
\* eventually has certificate_chain set in its status.
C21_WellFormedIsFulfilled ==
    \A r \in Requests :
        []CaAvailable => <>(WellFormed(r) => Fulfilled(server[r]))

====
